---- MODULE Spec2Model ----
(***************************************************************************)
(* Authoritative game state of the shrimp arena game:                      *)
(*   - the World (game-state module): shrimps (a Map in insertion order),  *)
(*     foods (an array), addShrimp / removeShrimp / updateShrimpPosition / *)
(*     spawnFood / processEating / getGameState / initGameState;           *)
(*   - the server callbacks that drive it: connection, input, disconnect   *)
(*     and the game loop, with the messages they emit and the time test    *)
(*     that gates the world broadcast.                                     *)
(* Math.random() is a nondeterministic choice of a fraction k / RandDen.   *)
(***************************************************************************)
EXTENDS Integers, Sequences, FiniteSets, TLC

VARIABLES
    shrimps,    \* Map<string, Shrimp>: sequence of Shrimp records in insertion order
    foods,      \* Food[]: sequence of Food records
    connected,  \* socket ids whose connection is open (server side)
    last,       \* the last call: its name, its argument, its return value, and for
                \* processEating the console log of the pass
    held,       \* <<>> or <<s>>: a GameState returned by getGameState that a caller keeps
    elapsed,    \* ms from lastStateUpdate to the game loop's latest Date.now()
                \* (to server start before the first loop run), capped at MaxElapsed
    out         \* what the last server callback emitted, and for the game loop the
                \* value of currentTime - lastStateUpdate it tested

vars == <<shrimps, foods, connected, last, held, elapsed, out>>

----------------------------------------------------------------------------
\* CONFIG

mapWidth == 800
mapHeight == 600
initialShrimpSize == 10
maxShrimpSize == 50
initialFoodCount == 10
minFoodSize == 4
maxFoodSize == 6
growthPerFood == 1
growthPerShrimp == 5
scorePerFood == 5
scorePerShrimp == 20
margin == 50

\* server.ts
TARGET_FPS == 60
FRAME_DELAY == 1000 \div TARGET_FPS

----------------------------------------------------------------------------
\* Bounds of the model

MaxSessions == 2     \* socket ids are 1..MaxSessions
MaxScore == 25       \* a pass that would lift a score above it is not explored
MaxDraws == 2        \* random draws chosen per pass (reused cyclically)
RandDen == 1000      \* Math.random() yields k / RandDen, 0 <= k < RandDen
MaxScoreGrown == 225 \* the score bound of the late-game specification
MaxScoreHeld == 15   \* the score bound of the kept-snapshot specification
MaxIdsHeld == 1      \* ids used in the kept-snapshot specification
MaxPlayers == 4      \* Players in the worlds of the pair-pass specification
MaxScorePairs == 100 \* the score bound of the pair-pass specification
MaxElapsed == 34     \* elapsed times of this many ms and more are not told apart
MaxScoreLoop == 30   \* the score bound of the broadcast-gate specification
MaxScoreEdge == 30   \* the score bound of the hit-test specification

Sessions == 1..MaxSessions

\* One draw = the three Math.random() results of one spawn: x, y, size
DrawFar == <<999, 999, 500>>
DrawNear == <<78, 100, 500>>
DrawMin == <<0, 0, 0>>
DrawBig == <<78, 100, 999>>
DrawSpot == <<72, 101, 0>>

Min(a, b) == IF a < b THEN a ELSE b
Max(a, b) == IF a > b THEN a ELSE b

----------------------------------------------------------------------------
\* Utility functions

getRandomPositionNoMargin(rx, ry) ==
    [x |-> (rx * mapWidth) \div RandDen, y |-> (ry * mapHeight) \div RandDen]

\* margin + Math.floor(Math.random() * (CONFIG.mapWidth - 2 * margin)), same for y
getRandomPosition(rx, ry) ==
    [x |-> margin + (rx * (mapWidth - 2 * margin)) \div RandDen,
     y |-> margin + (ry * (mapHeight - 2 * margin)) \div RandDen]

getRandomFoodSizeWide(rs) ==
    minFoodSize + (rs * (maxFoodSize - minFoodSize + 2)) \div RandDen

\* CONFIG.minFoodSize + Math.floor(Math.random() * (maxFoodSize - minFoodSize + 1))
getRandomFoodSize(rs) ==
    minFoodSize + (rs * (maxFoodSize - minFoodSize + 1)) \div RandDen

\* The food object pushed by spawnFood / by the replacement in processEating
NewFood(d) ==
    LET position == getRandomPosition(d[1], d[2])
    IN  [x |-> position.x, y |-> position.y, size |-> getRandomFoodSize(d[3])]

\* Map helpers
Has(S, id) == \E i \in 1..Len(S) : S[i].id = id
IndexOf(S, id) == CHOOSE i \in 1..Len(S) : S[i].id = id
MapDelete(S, id) == SelectSeq(S, LAMBDA s : s.id # id)
Ids(S) == {S[i].id : i \in 1..Len(S)}

\* the d-th draw of a pass, k draws already used
Draw(rnd, k) == rnd[(k % Len(rnd)) + 1]

----------------------------------------------------------------------------
\* Player management (pure effect on the Map)

newShrimp(id, d) ==
    LET position == getRandomPosition(d[1], d[2])
    IN  [id |-> id, x |-> position.x, y |-> position.y,
         size |-> initialShrimpSize, score |-> 0]

addShrimpKeepOld(S, id, d) == IF Has(S, id) THEN S ELSE Append(S, newShrimp(id, d))

\* shrimps.delete(id); shrimps.set(id, newShrimp)
addShrimp(S, id, d) == Append(MapDelete(S, id), newShrimp(id, d))

\* shrimps.delete(id); the call returns whether the key was present
removeShrimpKeep(S, id) == S

removeShrimp(S, id) == MapDelete(S, id)
removeShrimpResult(S, id) == Has(S, id)

clampNone(v, hi) == v
clamp(v, hi) == Max(0, Min(hi, v))

movedKeepY(s, x, y) == [s EXCEPT !.x = clamp(x, mapWidth)]

\* shrimp.x = Math.max(0, Math.min(CONFIG.mapWidth, x)); the same for y
moved(s, x, y) == [s EXCEPT !.x = clamp(x, mapWidth), !.y = clamp(y, mapHeight)]

updateShrimpPositionUpsert(S, id, x, y) ==
    IF Has(S, id)
    THEN [i \in 1..Len(S) |-> IF S[i].id = id THEN moved(S[i], x, y) ELSE S[i]]
    ELSE Append(S, moved([id |-> id, x |-> 0, y |-> 0,
                          size |-> initialShrimpSize, score |-> 0], x, y))

\* shrimp.x = ...; shrimp.y = ...; shrimps.set(id, shrimp) keeps the key's place
updateShrimpPosition(S, id, x, y) ==
    [i \in 1..Len(S) |-> IF S[i].id = id THEN moved(S[i], x, y) ELSE S[i]]

\* the call returns the updated shrimp, or null (<<>>) when the id has no shrimp
updateShrimpPositionResult(S, id, x, y) ==
    IF Has(S, id) THEN <<moved(S[IndexOf(S, id)], x, y)>> ELSE <<>>

----------------------------------------------------------------------------
\* Food management

spawnFoodShort(F, ds) == F \o [i \in 1..(Len(ds) - 1) |-> NewFood(ds[i])]

\* spawnFood(count) with the draws ds, Len(ds) = count
spawnFood(F, ds) == F \o [i \in 1..Len(ds) |-> NewFood(ds[i])]

----------------------------------------------------------------------------
\* Collision detection and game mechanics

Sq(a) == a * a
Dist2(a, b) == Sq(a.x - b.x) + Sq(a.y - b.y)

hitsFoodOrTouches(shrimp, food) == Dist2(shrimp, food) <= Sq(shrimp.size + food.size)
hitsShrimpOrTouches(shrimp1, shrimp2) ==
    4 * Dist2(shrimp1, shrimp2) <= Sq(shrimp1.size + shrimp2.size)
hitsShrimpSum(shrimp1, shrimp2) == Dist2(shrimp1, shrimp2) < Sq(shrimp1.size + shrimp2.size)

\* Math.sqrt(dx*dx + dy*dy) < shrimp.size + food.size
hitsFood(shrimp, food) == Dist2(shrimp, food) < Sq(shrimp.size + food.size)

\* Math.sqrt(dx*dx + dy*dy) < (shrimp1.size + shrimp2.size) / 2
hitsShrimp(shrimp1, shrimp2) ==
    4 * Dist2(shrimp1, shrimp2) < Sq(shrimp1.size + shrimp2.size)

growUnclamped(size, g) == size + g

\* if (size < max) { size += g; if (size > max) size = max }
grow(size, g) ==
    IF size < maxShrimpSize
    THEN (IF size + g > maxShrimpSize THEN maxShrimpSize ELSE size + g)
    ELSE size

ateFoodNoGrow(shrimp) == [shrimp EXCEPT !.score = @ + scorePerFood]

ateFoodScoreUnderCap(shrimp) ==
    IF shrimp.size < maxShrimpSize
    THEN [shrimp EXCEPT !.size = grow(@, growthPerFood), !.score = @ + scorePerFood]
    ELSE shrimp

ateFood(shrimp) ==
    [shrimp EXCEPT !.size = grow(@, growthPerFood), !.score = @ + scorePerFood]

ateShrimpAsFood(shrimp) == ateFood(shrimp)

ateShrimp(shrimp) ==
    [shrimp EXCEPT !.size = grow(@, growthPerShrimp), !.score = @ + scorePerShrimp]

RemoveAt(F, i) == [k \in 1..(Len(F) - 1) |-> IF k < i THEN F[k] ELSE F[k + 1]]

replaceFoodKeep(F, i, d) == Append(F, NewFood(d))
replaceFoodTwice(F, i, d) == Append(Append(RemoveAt(F, i), NewFood(d)), NewFood(d))

\* foods.splice(i, 1); foods.push(replacement)
replaceFood(F, i, d) == Append(RemoveAt(F, i), NewFood(d))

eatAt(st, i, rnd) ==
    [shrimp  |-> ateFood(st.shrimp),
     foods   |-> replaceFood(st.foods, i, Draw(rnd, st.used)),
     used    |-> st.used + 1,
     foodLog |-> Append(st.foodLog,
                        [by |-> st.shrimp.id, food |-> st.foods[i], at |-> i,
                         spawned |-> NewFood(Draw(rnd, st.used))])]

RECURSIVE scanFoodsAndNew(_, _, _)
scanFoodsAndNew(st, i, rnd) ==
    IF i < 1 THEN st
    ELSE IF hitsFood(st.shrimp, st.foods[i])
         THEN LET s1 == eatAt(st, i, rnd)
                  n == Len(s1.foods)
              IN  scanFoodsAndNew(IF hitsFood(s1.shrimp, s1.foods[n])
                                  THEN eatAt(s1, n, rnd) ELSE s1,
                                  i - 1, rnd)
         ELSE scanFoodsAndNew(st, i - 1, rnd)

RECURSIVE scanFoodsOnce(_, _, _)
scanFoodsOnce(st, i, rnd) ==
    IF i < 1 THEN st
    ELSE IF hitsFood(st.shrimp, st.foods[i])
         THEN [shrimp  |-> ateFood(st.shrimp),
               foods   |-> replaceFood(st.foods, i, Draw(rnd, st.used)),
               used    |-> st.used + 1,
               foodLog |-> Append(st.foodLog,
                                  [by |-> st.shrimp.id, food |-> st.foods[i], at |-> i,
                                   spawned |-> NewFood(Draw(rnd, st.used))])]
         ELSE scanFoodsOnce(st, i - 1, rnd)

\* PART 1, inner loop: for (i = foods.length - 1; i >= 0; i--), here i = Len..1.
\* st = [shrimp, foods, used, foodLog]; a log line tells who ate, the consumable,
\* its index when eaten, and the replacement pushed for it
RECURSIVE scanFoods(_, _, _)
scanFoods(st, i, rnd) ==
    IF i < 1 THEN st
    ELSE IF hitsFood(st.shrimp, st.foods[i])
         THEN scanFoods([shrimp  |-> ateFood(st.shrimp),
                         foods   |-> replaceFood(st.foods, i, Draw(rnd, st.used)),
                         used    |-> st.used + 1,
                         foodLog |-> Append(st.foodLog,
                                            [by |-> st.shrimp.id, food |-> st.foods[i],
                                             at |-> i,
                                             spawned |-> NewFood(Draw(rnd, st.used))])],
                        i - 1, rnd)
         ELSE scanFoods(st, i - 1, rnd)

\* PART 1, outer loop: shrimps.forEach, p = the next shrimp to visit.
\* w = [shrimps, foods, used, foodLog]
RECURSIVE passA(_, _, _)
passA(w, p, rnd) ==
    IF p > Len(w.shrimps) THEN w
    ELSE LET st == scanFoods([shrimp |-> w.shrimps[p], foods |-> w.foods,
                              used |-> w.used, foodLog |-> w.foodLog],
                             Len(w.foods), rnd)
         IN  passA([shrimps |-> [w.shrimps EXCEPT ![p] = st.shrimp],
                    foods |-> st.foods, used |-> st.used, foodLog |-> st.foodLog],
                   p + 1, rnd)

largerOrEqual(a, b) == a.size >= b.size
largerByTwo(a, b) == a.size > b.size + 1

\* if (shrimp1.size > shrimp2.size) ... else if (shrimp2.size > shrimp1.size)
larger(a, b) == a.size > b.size

continueInner(i, j) == <<i, j + 1>>

\* "break" after shrimp1 ate shrimp2: the inner loop ends, the outer goes on
afterShrimp1Wins(i, j) == <<i + 1, i + 2>>

\* PART 2: the pair loops over shrimpArray.
\* b = [array, deleted, shrimpLog]: the objects of shrimpArray, the keys deleted
\* from the Map so far, the "ate Shrimp" log lines.
\* shrimp1 wins: break (next i); shrimp2 wins: i = length; break (both loops end).
RECURSIVE passB(_, _, _)
passB(b, i, j) ==
    LET n == Len(b.array) IN
    IF i > n THEN b
    ELSE IF j > n THEN passB(b, i + 1, i + 2)
    ELSE LET shrimp1 == b.array[i]
             shrimp2 == b.array[j]
         IN  IF hitsShrimp(shrimp1, shrimp2) /\ larger(shrimp1, shrimp2)
             THEN passB([array     |-> [b.array EXCEPT ![i] = ateShrimp(shrimp1)],
                         deleted   |-> b.deleted \cup {shrimp2.id},
                         shrimpLog |-> Append(b.shrimpLog,
                                              [eater |-> shrimp1.id, eaten |-> shrimp2.id])],
                        afterShrimp1Wins(i, j)[1], afterShrimp1Wins(i, j)[2])
             ELSE IF hitsShrimp(shrimp1, shrimp2) /\ larger(shrimp2, shrimp1)
             THEN [array     |-> [b.array EXCEPT ![j] = ateShrimp(shrimp2)],
                   deleted   |-> b.deleted \cup {shrimp1.id},
                   shrimpLog |-> Append(b.shrimpLog,
                                        [eater |-> shrimp2.id, eaten |-> shrimp1.id])]
             ELSE passB(b, i, j + 1)

\* PART 3: if (foods.length < initialFoodCount) spawnFood(initialFoodCount - foods.length)
topUp(F, rnd, used) ==
    IF Len(F) < initialFoodCount
    THEN spawnFood(F, [k \in 1..(initialFoodCount - Len(F)) |-> Draw(rnd, used + k - 1)])
    ELSE F

Turned(A) == [k \in 1..Len(A) |-> A[Len(A) + 1 - k]]

processEatingByMeal(S, F, rnd) ==
    IF Len(S) = 0
    THEN [shrimps |-> S, foods |-> F, array |-> <<>>, arrayB |-> <<>>,
          deleted |-> {}, foodLog |-> <<>>, shrimpLog |-> <<>>]
    ELSE LET a == passA([shrimps |-> S, foods |-> F, used |-> 0, foodLog |-> <<>>], 1, rnd)
             b == passB([array |-> IF a.foodLog = <<>> THEN a.shrimps ELSE Turned(a.shrimps),
                         deleted |-> {}, shrimpLog |-> <<>>], 1, 2)
             array == IF a.foodLog = <<>> THEN b.array ELSE Turned(b.array)
         IN  [shrimps   |-> SelectSeq(array, LAMBDA s : s.id \notin b.deleted),
              foods     |-> topUp(a.foods, rnd, a.used),
              array     |-> array,
              arrayB    |-> a.shrimps,
              deleted   |-> b.deleted,
              foodLog   |-> a.foodLog,
              shrimpLog |-> b.shrimpLog]

processEatingTurns(S, F, rnd) ==
    IF Len(S) = 0
    THEN [shrimps |-> S, foods |-> Turned(F), array |-> <<>>, arrayB |-> <<>>,
          deleted |-> {}, foodLog |-> <<>>, shrimpLog |-> <<>>]
    ELSE LET a == passA([shrimps |-> S, foods |-> F, used |-> 0, foodLog |-> <<>>], 1, rnd)
             b == passB([array |-> a.shrimps, deleted |-> {}, shrimpLog |-> <<>>], 1, 2)
         IN  [shrimps   |-> SelectSeq(b.array, LAMBDA s : s.id \notin b.deleted),
              foods     |-> topUp(a.foods, rnd, a.used),
              array     |-> b.array,
              arrayB    |-> a.shrimps,
              deleted   |-> b.deleted,
              foodLog   |-> a.foodLog,
              shrimpLog |-> b.shrimpLog]

\* processEating(): the Map and the array after the call, the objects of
\* shrimpArray as the call leaves them (also those no longer in the Map), the
\* array at the start of PART 2, and the log lines.
processEating(S, F, rnd) ==
    IF Len(S) = 0
    THEN [shrimps |-> S, foods |-> F, array |-> <<>>, arrayB |-> <<>>,
          deleted |-> {}, foodLog |-> <<>>, shrimpLog |-> <<>>]
    ELSE LET a == passA([shrimps |-> S, foods |-> F, used |-> 0, foodLog |-> <<>>], 1, rnd)
             b == passB([array |-> a.shrimps, deleted |-> {}, shrimpLog |-> <<>>], 1, 2)
         IN  [shrimps   |-> SelectSeq(b.array, LAMBDA s : s.id \notin b.deleted),
              foods     |-> topUp(a.foods, rnd, a.used),
              array     |-> b.array,
              arrayB    |-> a.shrimps,
              deleted   |-> b.deleted,
              foodLog   |-> a.foodLog,
              shrimpLog |-> b.shrimpLog]

\* getGameState(): { shrimps: Array.from(shrimps.values()), foods: [...foods] }.
\* Both arrays are new, the Shrimp objects in the first are the Map's own objects:
\* each entry is the object as it reads now, and whether the Map still stores it.
getGameState(S, F) ==
    [shrimps |-> [i \in 1..Len(S) |-> [obj |-> S[i], shared |-> TRUE]],
     foods   |-> F,
     taken   |-> [shrimps |-> S, foods |-> F]]

\* What a caller reads through a GameState it holds
View(h) == [shrimps |-> [i \in 1..Len(h.shrimps) |-> h.shrimps[i].obj],
            foods   |-> h.foods]

\* Object sharing: after a call, an entry whose object the Map stored reads as
\* that object reads now (objs: the objects the Map stored, as the call leaves
\* them), and is no longer the Map's once its key was deleted (gone).
Sync(H, objs, gone) ==
    [n \in 1..Len(H) |->
        [H[n] EXCEPT !.shrimps =
            [i \in 1..Len(H[n].shrimps) |->
                LET e == H[n].shrimps[i] IN
                IF e.shared
                THEN [obj |-> objs[IndexOf(objs, e.obj.id)],
                      shared |-> e.obj.id \notin gone]
                ELSE e]]]

\* initGameState(): shrimps.clear(); foods.length = 0; spawnFood()
initGameState(ds) == [shrimps |-> <<>>, foods |-> spawnFood(<<>>, ds)]

----------------------------------------------------------------------------
\* Inputs the model explores

\* initGameState() at server start: far food, one big and one small item near (104, 100)
InitDraws ==
    {[i \in 1..initialFoodCount |->
        IF i = 3 THEN DrawBig ELSE IF i = 7 THEN DrawNear ELSE DrawFar]}

FoodDraws == {DrawFar, DrawNear}
PlayerDraws == {DrawSpot}

\* A pass draws random numbers only when it spawns a replacement, which it does
\* only if some shrimp touches some food when the pass starts; otherwise one
\* choice of draws stands for all.
AnyHit(S, F) == \E i \in 1..Len(S), k \in 1..Len(F) : hitsFood(S[i], F[k])
PassDraws(S, F) ==
    IF AnyHit(S, F) THEN [1..MaxDraws -> FoodDraws] ELSE {[k \in 1..MaxDraws |-> DrawFar]}

\* pointer positions sent by clients: in range, and beyond the map on both axes
Targets == {<<100, 100>>, <<900, -5>>}

\* ms between one run of the game loop and the next: on time, and late.
\* The World does not depend on the time; where the World is explored the loop
\* runs late, where the broadcast gate is explored (SpecLoop) it does both.
Delays == {FRAME_DELAY, 2 * FRAME_DELAY + 2}
Late == {2 * FRAME_DELAY + 2}

NoWorld == [shrimps |-> <<>>, foods |-> <<>>]

\* a callback that emits nothing
NoOutput == [waited |-> 0, msgs |-> <<>>]

\* socket.emit(event, payload): one message, for the socket of the callback.
\* data: what each receiving socket gets.
socketEmit(id, event, payload) ==
    [via |-> "socket", event |-> event, data |-> [s \in {id} |-> payload]]

ioEmitOwn(open, event, payload) ==
    [via |-> "io", event |-> event,
     data |-> [s \in open |-> IF s = CHOOSE t \in open : TRUE THEN payload ELSE NoWorld]]

\* io.emit(event, payload): one message, for every open socket
ioEmit(open, event, payload) ==
    [via |-> "io", event |-> event, data |-> [s \in open |-> payload]]

gameUpdateEmpty(S, F) == View(getGameState(<<>>, F))

\* the payload of 'gameUpdate': the GameState that getGameState() returns, handed
\* to the transport, which serialises it: a receiver gets what it reads at the call
gameUpdate(S, F) == View(getGameState(S, F))

stateUpdateDueAlways(waited) == TRUE

\* currentTime - lastStateUpdate >= STATE_UPDATE_INTERVAL, the interval 1000 / 30
stateUpdateDue(waited) == 30 * waited >= 1000

\* The record of a call other than processEating (args: the coordinates given
\* to updateShrimpPosition); repeat: a removeShrimp call
\* that directly follows a removeShrimp call for the same id that returned true,
\* or an addShrimp call for an id that had a shrimp
Call(op, id, ret) ==
    [op |-> op, id |-> id, args |-> <<>>, ret |-> ret,
     repeat |-> \/ (op = "removeShrimp" /\ last.op = op /\ last.id = id
                      /\ last.ret = <<TRUE>>)
                \/ (op = "addShrimp" /\ Has(shrimps, id)),
     before |-> NoWorld, arrayB |-> <<>>, foodLog |-> <<>>, shrimpLog |-> <<>>]

----------------------------------------------------------------------------
\* State machine

Init ==
    /\ \E ds \in InitDraws :
          /\ shrimps = initGameState(ds).shrimps
          /\ foods = initGameState(ds).foods
    /\ connected = {}
    /\ last = [op |-> "initGameState", id |-> 0, args |-> <<>>, ret |-> <<>>,
               repeat |-> FALSE,
               before |-> NoWorld, arrayB |-> <<>>, foodLog |-> <<>>, shrimpLog |-> <<>>]
    /\ held = <<>>
    /\ elapsed = MaxElapsed
    /\ out = NoOutput

\* World calls -------------------------------------------------------------

AddShrimp(id, d) ==
    /\ shrimps' = addShrimp(shrimps, id, d)
    /\ last' = Call("addShrimp", id, <<newShrimp(id, d)>>)
    /\ held' = Sync(held, shrimps, {id})
    /\ UNCHANGED foods

RemoveShrimp(id) ==
    /\ shrimps' = removeShrimp(shrimps, id)
    /\ last' = Call("removeShrimp", id, <<removeShrimpResult(shrimps, id)>>)
    /\ held' = Sync(held, shrimps, {id})
    /\ UNCHANGED foods

UpdateShrimpPosition(id, x, y) ==
    /\ shrimps' = updateShrimpPosition(shrimps, id, x, y)
    /\ last' = [Call("updateShrimpPosition", id,
                     updateShrimpPositionResult(shrimps, id, x, y))
                   EXCEPT !.args = <<x, y>>]
    /\ held' = Sync(held, shrimps', {})
    /\ UNCHANGED foods

\* cap: scores above it are not explored
ProcessEating(rnd, cap) ==
    LET r == processEating(shrimps, foods, rnd) IN
    /\ \A i \in 1..Len(r.array) : r.array[i].score <= cap
    /\ shrimps' = r.shrimps
    /\ foods' = r.foods
    /\ last' = [op |-> "processEating", id |-> 0, args |-> <<>>, ret |-> <<>>,
                repeat |-> FALSE,
                before |-> [shrimps |-> shrimps, foods |-> foods],
                arrayB |-> r.arrayB, foodLog |-> r.foodLog, shrimpLog |-> r.shrimpLog]
    /\ held' = Sync(held, r.array, r.deleted)

GetGameState ==
    /\ held' = <<getGameState(shrimps, foods)>>
    /\ last' = Call("getGameState", 0, <<>>)
    /\ UNCHANGED <<shrimps, foods>>

\* Server callbacks --------------------------------------------------------

\* io.on('connection'): socket.id is a fresh id
Connect(id, d) ==
    /\ id \notin connected
    /\ connected' = connected \cup {id}
    /\ AddShrimp(id, d)
    /\ out' = [waited |-> 0,
               msgs |-> <<socketEmit(id, "gameUpdate", gameUpdate(shrimps', foods')),
                          ioEmit(connected', "player_count", Cardinality(connected'))>>]
    /\ UNCHANGED elapsed

\* socket.on('input')
Input(id, x, y) ==
    /\ id \in connected
    /\ UpdateShrimpPosition(id, x, y)
    /\ out' = NoOutput
    /\ UNCHANGED <<connected, elapsed>>

DisconnectOfPlayer(id) ==
    /\ id \in connected
    /\ connected' = connected \ {id}
    /\ RemoveShrimp(id)
    /\ out' = [waited |-> 0,
               msgs |-> IF Has(shrimps, id)
                        THEN <<ioEmit(connected', "player_count", Cardinality(connected'))>>
                        ELSE <<>>]
    /\ UNCHANGED elapsed

\* socket.on('disconnect')
Disconnect(id) ==
    /\ id \in connected
    /\ connected' = connected \ {id}
    /\ RemoveShrimp(id)
    /\ out' = [waited |-> 0,
               msgs |-> <<ioEmit(connected', "player_count", Cardinality(connected'))>>]
    /\ UNCHANGED elapsed

\* setInterval game loop, dt ms after its previous run: processEating(), then
\* getGameState() and the gated io.emit('gameUpdate', currentState)
GameLoop(rnd, dt, cap) ==
    LET waited == Min(MaxElapsed, elapsed + dt) IN
    /\ ProcessEating(rnd, cap)
    /\ out' = [waited |-> waited,
               msgs |-> IF stateUpdateDue(waited)
                        THEN <<ioEmit(connected, "gameUpdate",
                                      gameUpdate(shrimps', foods'))>>
                        ELSE <<>>]
    /\ elapsed' = IF stateUpdateDue(waited) THEN 0 ELSE waited
    /\ UNCHANGED connected

Tick(rnd, dt) == GameLoop(rnd, dt, MaxScore)

Next ==
    \/ \E id \in Sessions, d \in PlayerDraws : Connect(id, d)
    \/ \E id \in Sessions, t \in Targets : Input(id, t[1], t[2])
    \/ \E id \in Sessions : Disconnect(id)
    \/ \E rnd \in PassDraws(shrimps, foods), dt \in Late : Tick(rnd, dt)

Spec == Init /\ [][Next]_vars

----------------------------------------------------------------------------
\* Late game: every session has a Player that grew on food alone (size s after
\* s - initialShrimpSize consumables), all gathered on the spot (100, 100) by
\* their last inputs, the pass not yet run. Sessions only play on or leave.

GrownSizes == {48, 50}

grownShrimp(id, size) ==
    [id |-> id, x |-> 100, y |-> 100, size |-> size,
     score |-> scorePerFood * ((size - initialShrimpSize) \div growthPerFood)]

InitGrown ==
    /\ \E sz \in [Sessions -> GrownSizes] :
          shrimps = [i \in 1..MaxSessions |-> grownShrimp(i, sz[i])]
    /\ \E ds \in InitDraws : foods = initGameState(ds).foods
    /\ connected = Sessions
    /\ last = [op |-> "updateShrimpPosition", id |-> MaxSessions,
               args |-> <<shrimps[MaxSessions].x, shrimps[MaxSessions].y>>,
               ret |-> <<shrimps[MaxSessions]>>, repeat |-> FALSE,
               before |-> NoWorld, arrayB |-> <<>>, foodLog |-> <<>>, shrimpLog |-> <<>>]
    /\ held = <<>>
    /\ elapsed = 0
    /\ out = NoOutput

TickGrown(rnd, dt) == GameLoop(rnd, dt, MaxScoreGrown)

NextGrown ==
    \/ \E id \in Sessions, t \in Targets : Input(id, t[1], t[2])
    \/ \E id \in Sessions : Disconnect(id)
    \/ \E rnd \in PassDraws(shrimps, foods), dt \in Late : TickGrown(rnd, dt)

SpecGrown == InitGrown /\ [][NextGrown]_vars

----------------------------------------------------------------------------
\* Broadcast gate: the server from its start, the game loop running on time or
\* late; every replacement consumable falls far from the Players.

LoopDraws == {[k \in 1..MaxDraws |-> DrawFar]}

TickLoop(rnd, dt) == GameLoop(rnd, dt, MaxScoreLoop)

NextLoop ==
    \/ \E id \in Sessions, d \in PlayerDraws : Connect(id, d)
    \/ \E id \in Sessions, t \in Targets : Input(id, t[1], t[2])
    \/ \E id \in Sessions : Disconnect(id)
    \/ \E rnd \in LoopDraws, dt \in Delays : TickLoop(rnd, dt)

SpecLoop == Init /\ [][NextLoop]_vars

----------------------------------------------------------------------------
\* Pair pass: worlds of 2..MaxPlayers Players, each fed 0, 1 or 2 consumables
\* earlier and then sent by its last input to one of two spots; all food is far
\* away. Every insertion order of sizes and spots occurs. Only the game loop runs.

FedSizes == {10, 11, 12}
Spots == {<<100, 100>>, <<400, 300>>}

fedShrimp(id, spot, size) ==
    [id |-> id, x |-> spot[1], y |-> spot[2], size |-> size,
     score |-> scorePerFood * ((size - initialShrimpSize) \div growthPerFood)]

InitPairs ==
    /\ \E n \in 2..MaxPlayers :
         \E sz \in [1..n -> FedSizes], at \in [1..n -> Spots] :
            /\ shrimps = [i \in 1..n |-> fedShrimp(i, at[i], sz[i])]
            /\ connected = 1..n
    /\ foods = initGameState([i \in 1..initialFoodCount |-> DrawFar]).foods
    /\ last = [op |-> "updateShrimpPosition", id |-> Len(shrimps),
               args |-> <<shrimps[Len(shrimps)].x, shrimps[Len(shrimps)].y>>,
               ret |-> <<shrimps[Len(shrimps)]>>, repeat |-> FALSE,
               before |-> NoWorld, arrayB |-> <<>>, foodLog |-> <<>>, shrimpLog |-> <<>>]
    /\ held = <<>>
    /\ elapsed = 0
    /\ out = NoOutput

TickPairs(rnd, dt) == GameLoop(rnd, dt, MaxScorePairs)

NextPairs == \E rnd \in PassDraws(shrimps, foods), dt \in Late : TickPairs(rnd, dt)

SpecPairs == InitPairs /\ [][NextPairs]_vars

----------------------------------------------------------------------------
\* Both parts of the pass: worlds like those of the pair pass, each Player fed 0
\* or 1 consumables earlier, but with the consumables as at server start, two
\* of them within reach of the Players on (100, 100).

MealSizes == {10, 11}

InitMeal ==
    /\ \E n \in 2..MaxPlayers :
         \E sz \in [1..n -> MealSizes], at \in [1..n -> Spots] :
            /\ shrimps = [i \in 1..n |-> fedShrimp(i, at[i], sz[i])]
            /\ connected = 1..n
    /\ \E ds \in InitDraws : foods = initGameState(ds).foods
    /\ last = [op |-> "updateShrimpPosition", id |-> Len(shrimps),
               args |-> <<shrimps[Len(shrimps)].x, shrimps[Len(shrimps)].y>>,
               ret |-> <<shrimps[Len(shrimps)]>>, repeat |-> FALSE,
               before |-> NoWorld, arrayB |-> <<>>, foodLog |-> <<>>, shrimpLog |-> <<>>]
    /\ held = <<>>
    /\ elapsed = 0
    /\ out = NoOutput

SpecMeal == InitMeal /\ [][NextPairs]_vars

\* The same worlds with every replacement consumable falling far from the
\* Players, so that the meals end and the scores stay within MaxScorePairs, and
\* with the game loop never ceasing to run: setInterval() calls it again every
\* FRAME_DELAY ms for as long as the server lives. No connection,
\* disconnection or input arrives.
NextFair == \E rnd \in LoopDraws, dt \in Late : TickPairs(rnd, dt)

\* The state a run of the game loop leaves, as GameLoop(rnd, dt, MaxScorePairs)
\* assigns it: <<shrimps, foods, connected, last, held, elapsed, out>>
afterTickPairs(rnd, dt) ==
    LET r == processEating(shrimps, foods, rnd)
        waited == Min(MaxElapsed, elapsed + dt)
    IN  <<r.shrimps,
          r.foods,
          connected,
          [op |-> "processEating", id |-> 0, args |-> <<>>, ret |-> <<>>,
           repeat |-> FALSE,
           before |-> [shrimps |-> shrimps, foods |-> foods],
           arrayB |-> r.arrayB, foodLog |-> r.foodLog, shrimpLog |-> r.shrimpLog],
          Sync(held, r.array, r.deleted),
          IF stateUpdateDue(waited) THEN 0 ELSE waited,
          [waited |-> waited,
           msgs |-> IF stateUpdateDue(waited)
                    THEN <<ioEmit(connected, "gameUpdate", gameUpdate(r.shrimps, r.foods))>>
                    ELSE <<>>]>>

\* ENABLED <<NextFair>>_vars as a state predicate: some run of the game loop
\* is within the explored scores and changes the state
TickPairsActs ==
    \E rnd \in LoopDraws, dt \in Late :
       /\ \A i \in 1..Len(processEating(shrimps, foods, rnd).array) :
              processEating(shrimps, foods, rnd).array[i].score <= MaxScorePairs
       /\ afterTickPairs(rnd, dt) # <<shrimps, foods, connected, last, held, elapsed, out>>

\* The last conjunct is weak fairness of the game loop, WF_vars(NextFair),
\* written out as []<>~ENABLED <<NextFair>>_vars \/ []<><<NextFair>>_vars.
FairMeal ==
    /\ InitMeal
    /\ [][NextFair]_vars
    /\ ([]<>(~TickPairsActs) \/ []<><<NextFair>>_vars)

----------------------------------------------------------------------------
\* Hit tests: two Players, each fed 0, 1 or 2 consumables earlier, the world's
\* consumables as at server start (two on (104, 100), sizes 6 and 5). Inputs
\* send the Players to places at distances just below, on and just above the
\* thresholds of both tests, along the line y = 100 and on a diagonal.

EdgeTargets == {<<88, 100>>, <<89, 100>>, <<90, 100>>, <<100, 100>>, <<101, 100>>,
                <<95, 88>>}

InitEdge ==
    /\ \E sz \in [1..2 -> FedSizes] :
          shrimps = [i \in 1..2 |-> fedShrimp(i, <<400, 300>>, sz[i])]
    /\ \E ds \in InitDraws : foods = initGameState(ds).foods
    /\ connected = 1..2
    /\ last = [op |-> "updateShrimpPosition", id |-> 2,
               args |-> <<shrimps[2].x, shrimps[2].y>>,
               ret |-> <<shrimps[2]>>, repeat |-> FALSE,
               before |-> NoWorld, arrayB |-> <<>>, foodLog |-> <<>>, shrimpLog |-> <<>>]
    /\ held = <<>>
    /\ elapsed = 0
    /\ out = NoOutput

TickEdge(rnd, dt) == GameLoop(rnd, dt, MaxScoreEdge)

NextEdge ==
    \/ \E id \in 1..2, t \in EdgeTargets : Input(id, t[1], t[2])
    \/ \E rnd \in PassDraws(shrimps, foods), dt \in Late : TickEdge(rnd, dt)

SpecEdge == InitEdge /\ [][NextEdge]_vars

----------------------------------------------------------------------------
\* The World as a module: any caller, any order of the exported calls, any id
\* (also one that has no shrimp, or one that has one already).

\* what the World calls leave alone
server == <<connected, elapsed, out>>

CallProcessEating(rnd) ==
    /\ ProcessEating(rnd, MaxScore)
    /\ UNCHANGED server

NextApi ==
    \/ \E id \in Sessions, d \in PlayerDraws : AddShrimp(id, d) /\ UNCHANGED server
    \/ \E id \in Sessions : RemoveShrimp(id) /\ UNCHANGED server
    \/ \E id \in Sessions, t \in Targets :
          UpdateShrimpPosition(id, t[1], t[2]) /\ UNCHANGED server
    \/ \E rnd \in PassDraws(shrimps, foods) : CallProcessEating(rnd)

SpecApi == Init /\ [][NextApi]_vars

\* The same with a caller that calls getGameState once and keeps what it got
KeepGameState ==
    /\ held = <<>>
    /\ GetGameState
    /\ UNCHANGED server

HeldProcessEating(rnd) ==
    /\ ProcessEating(rnd, MaxScoreHeld)
    /\ UNCHANGED server

NextHeld ==
    \/ \E id \in 1..MaxIdsHeld, d \in PlayerDraws : AddShrimp(id, d) /\ UNCHANGED server
    \/ \E id \in 1..MaxIdsHeld : RemoveShrimp(id) /\ UNCHANGED server
    \/ \E id \in 1..MaxIdsHeld, t \in Targets :
          UpdateShrimpPosition(id, t[1], t[2]) /\ UNCHANGED server
    \/ \E rnd \in PassDraws(shrimps, foods) : HeldProcessEating(rnd)
    \/ KeepGameState

SpecHeld == Init /\ [][NextHeld]_vars

----------------------------------------------------------------------------
\* Random placement: the World as a module, restarted with initGameState() and
\* given a Player by addShrimp() whenever it has none, the random numbers swept
\* over their range along each axis for the Player and taken at its ends for
\* the consumables.

SweepDraws ==
    {<<rx, 0, 0>> : rx \in 0..(RandDen - 1)}
       \cup {<<RandDen - 1, ry, 0>> : ry \in 0..(RandDen - 1)}

CornerDraws == {<<0, 0, 0>>, <<RandDen - 1, RandDen - 1, RandDen - 1>>}

InitGameState(ds) ==
    /\ shrimps' = initGameState(ds).shrimps
    /\ foods' = initGameState(ds).foods
    /\ last' = Call("initGameState", 0, <<>>)
    /\ held' = Sync(held, shrimps, Ids(shrimps))
    /\ UNCHANGED server

NextPlace ==
    \/ \E d \in SweepDraws : ~Has(shrimps, 1) /\ AddShrimp(1, d) /\ UNCHANGED server
    \/ RemoveShrimp(1) /\ UNCHANGED server
    \/ \E d \in CornerDraws : InitGameState([i \in 1..initialFoodCount |-> d])

SpecPlace == Init /\ [][NextPlace]_vars

----------------------------------------------------------------------------
\* Properties

World == <<shrimps, foods>>
Pass == last.op = "processEating"

InBounds(s) == 0 <= s.x /\ s.x <= mapWidth /\ 0 <= s.y /\ s.y <= mapHeight

\* C4: in every reachable state every live Player lies within
\* [0, mapWidth] x [0, mapHeight], whatever coordinates the inputs carried.
C4_PositionsInBounds == \A i \in 1..Len(shrimps) : InBounds(shrimps[i])

\* C4 witness: a pass has run with a Player that an input beyond the map on both
\* axes (x > mapWidth, y < 0) left on the corner (mapWidth, 0).
C4_Witness ==
    /\ Pass
    /\ \E i \in 1..Len(shrimps) : shrimps[i].x = mapWidth /\ shrimps[i].y = 0

\* C7: at the end of every pass the number of consumables is at least
\* initialFoodCount, with or without Players, with or without consumption.
C7_FoodFloor == Pass => Len(foods) >= initialFoodCount

\* C7 witness: a pass in which consumables were consumed has ended.
C7_Witness == Pass /\ Len(last.foodLog) >= 2 /\ Len(foods) >= initialFoodCount

\* C10: an input for a session without a live Player returns null and leaves
\* every Player and every consumable unchanged.
C10_InputWithoutPlayer ==
    [][(last'.op = "updateShrimpPosition" /\ ~Has(shrimps, last'.id))
         => (last'.ret = <<>> /\ World' = World)]_vars

\* C10 witness: a connected session whose Player was consumed has sent an input,
\* the call returned null, and the Player that consumed it is still there.
C10_Witness ==
    /\ last.op = "updateShrimpPosition"
    /\ last.ret = <<>>
    /\ last.id \in connected
    /\ Len(shrimps) >= 1

\* the Player with this id lives on across the step (a Player created by the
\* step under an id that was in use is a new Player)
SamePlayer(id) ==
    /\ Has(shrimps, id) /\ Has(shrimps', id)
    /\ ~(last'.op = "addShrimp" /\ last'.id = id)

Was(id) == shrimps[IndexOf(shrimps, id)]
Now(id) == shrimps'[IndexOf(shrimps', id)]

\* log lines of the last pass
FoodsEatenBy(id) == Cardinality({k \in 1..Len(last.foodLog) : last.foodLog[k].by = id})
ShrimpsEatenBy(id) ==
    Cardinality({k \in 1..Len(last.shrimpLog) : last.shrimpLog[k].eater = id})
Before(id) == last.before.shrimps[IndexOf(last.before.shrimps, id)]
Alive(id) == shrimps[IndexOf(shrimps, id)]

\* C5: while a Player remains alive its size never decreases, and no Player's
\* size ever exceeds maxShrimpSize, however much it consumes in one pass.
C5_SizeMonotoneCapped ==
    [][/\ \A i \in 1..Len(shrimps') : shrimps'[i].size <= maxShrimpSize
       /\ \A id \in Sessions : SamePlayer(id) => Now(id).size >= Was(id).size]_vars

\* C5 witness: a Player below the maximum consumed two consumables and a Player
\* in one pass (48 + 1 + 1 + 5) and stands at maxShrimpSize.
C5_Witness ==
    /\ Pass
    /\ \E id \in Sessions :
          /\ Has(shrimps, id) /\ Has(last.before.shrimps, id)
          /\ Before(id).size < maxShrimpSize - 1
          /\ FoodsEatenBy(id) >= 2
          /\ ShrimpsEatenBy(id) >= 1
          /\ Alive(id).size = maxShrimpSize

\* number of consumables the Player touches when the pass starts
Touching(p, F) == Cardinality({k \in 1..Len(F) : hitsFood(p, F[k])})

\* C6: a live Player's score never decreases; in a pass it rises by scorePerFood
\* for every consumable the Player destroyed and by scorePerShrimp for every
\* Player it consumed, also at maxShrimpSize: a Player at the maximum that is
\* the first to touch consumables destroys all it touches, and its size stays.
C6_ScoreIndependentOfCap ==
    [][/\ \A id \in Sessions : SamePlayer(id) => Now(id).score >= Was(id).score
       /\ last'.op = "processEating" =>
            \A i \in 1..Len(shrimps) :
               LET p == shrimps[i]
                   a == last'.arrayB[i]
                   n == Cardinality({k \in 1..Len(last'.foodLog) :
                                        last'.foodLog[k].by = p.id})
                   m == Cardinality({k \in 1..Len(last'.shrimpLog) :
                                        last'.shrimpLog[k].eater = p.id})
               IN  /\ a.score = p.score + scorePerFood * n
                   /\ Has(shrimps', p.id) =>
                         Now(p.id).score = a.score + scorePerShrimp * m
                   /\ p.size = maxShrimpSize =>
                         /\ a.size = maxShrimpSize
                         /\ (\A j \in 1..(i - 1) : Touching(shrimps[j], foods) = 0)
                               => n = Touching(p, foods)
                         /\ Has(shrimps', p.id) => Now(p.id).size = maxShrimpSize]_vars

\* C6 witness: a Player that entered the pass at maxShrimpSize destroyed a
\* consumable and consumed a Player in it; its size is still the maximum and
\* its score rose by scorePerFood per consumable plus scorePerShrimp.
C6_Witness ==
    /\ Pass
    /\ \E id \in Sessions :
          /\ Has(shrimps, id) /\ Has(last.before.shrimps, id)
          /\ Before(id).size = maxShrimpSize
          /\ FoodsEatenBy(id) >= 1
          /\ ShrimpsEatenBy(id) = 1
          /\ Alive(id).size = maxShrimpSize
          /\ Alive(id).score = Before(id).score + scorePerFood * FoodsEatenBy(id)
                                + scorePerShrimp

\* the Player as PART 2 of the last pass found it in shrimpArray
AtPassB(id) == last.arrayB[IndexOf(last.arrayB, id)]
Involved(id) ==
    \E k \in 1..Len(last.shrimpLog) :
        last.shrimpLog[k].eater = id \/ last.shrimpLog[k].eaten = id

\* C1: within PART 2 of a pass, a Player destroyed earlier in the pass is in no
\* later pair that has an effect: it neither consumes nor is consumed again.
C1_DestroyedExcluded ==
    Pass => \A k, m \in 1..Len(last.shrimpLog) :
               k < m => /\ last.shrimpLog[m].eater # last.shrimpLog[k].eaten
                        /\ last.shrimpLog[m].eaten # last.shrimpLog[k].eaten

\* C2: in PART 2 of one pass no Player wins against more than one loser; its
\* size grows by at most growthPerShrimp and its score by at most scorePerShrimp.
C2_AtMostOneEaten ==
    Pass => /\ \A id \in Ids(last.arrayB) : ShrimpsEatenBy(id) <= 1
            /\ \A id \in Ids(shrimps) :
                  /\ Alive(id).size <= AtPassB(id).size + growthPerShrimp
                  /\ Alive(id).score <= AtPassB(id).score + scorePerShrimp

\* C2 witness: a Player that overlapped three strictly smaller Players at once
\* consumed exactly one of them and grew by growthPerShrimp.
C2_Witness ==
    /\ Pass
    /\ \E id \in Ids(shrimps) :
          /\ ShrimpsEatenBy(id) = 1
          /\ Cardinality({k \in 1..Len(last.arrayB) :
                            /\ last.arrayB[k].id # id
                            /\ hitsShrimp(AtPassB(id), last.arrayB[k])
                            /\ last.arrayB[k].size < AtPassB(id).size}) >= 3
          /\ Alive(id).size = AtPassB(id).size + growthPerShrimp
          /\ Alive(id).score = AtPassB(id).score + scorePerShrimp

\* C3: after a pass no two surviving Players that neither consumed nor were
\* consumed in it still overlap with strictly different sizes.
C3_AllPairsTested ==
    Pass => \A i, j \in 1..Len(shrimps) :
               (i < j /\ ~Involved(shrimps[i].id) /\ ~Involved(shrimps[j].id))
                  => ~(hitsShrimp(shrimps[i], shrimps[j])
                        /\ shrimps[i].size # shrimps[j].size)

\* C8: nothing a later call does is observable through a GameState returned
\* earlier: it reads as it read when getGameState returned it.
C8_SnapshotFrozen == \A n \in 1..Len(held) : View(held[n]) = held[n].taken

\* C9: removeShrimp returns true exactly when the Player was present, leaves the
\* id without a Player, never touches another Player or a consumable, changes
\* nothing at all when the Player was absent, and returns false when it
\* directly follows a removeShrimp call for the same id.
C9_RemoveIdempotent ==
    [][last'.op = "removeShrimp" =>
          /\ last'.ret = <<Has(shrimps, last'.id)>>
          /\ ~Has(shrimps', last'.id)
          /\ shrimps' = SelectSeq(shrimps, LAMBDA s : s.id # last'.id)
          /\ foods' = foods
          /\ ~Has(shrimps, last'.id) => World' = World
          /\ (last.op = "removeShrimp" /\ last.id = last'.id) => last'.ret = <<FALSE>>]_vars

\* C9 witness: two consecutive removeShrimp calls for the same id, the first on
\* a present Player (so it returned true), the second returning false, another
\* Player still alive.
C9_Witness ==
    /\ last.op = "removeShrimp"
    /\ last.repeat
    /\ last.ret = <<FALSE>>
    /\ Len(shrimps) >= 1

\* consumables equal to v in F; "ate food" log lines of the last pass about a
\* consumable equal to v, all and by one Player
CountIn(F, v) == Cardinality({k \in 1..Len(F) : F[k] = v})
Eaten(v) == Cardinality({k \in 1..Len(last.foodLog) : last.foodLog[k].food = v})
EatenBy(id, v) ==
    Cardinality({k \in 1..Len(last.foodLog) :
                    last.foodLog[k].by = id /\ last.foodLog[k].food = v})

\* C11: in a pass with Players, every consumable some Player touches when the
\* pass starts is destroyed, by the first Player in insertion order that reaches
\* it; every Player leaves PART 1 with its size raised by growthPerFood per
\* consumable it destroyed, clamped to maxShrimpSize, and its score raised by
\* scorePerFood per consumable; the number of consumables is what it was.
C11_FoodConsumed ==
    (Pass /\ Len(last.before.shrimps) > 0) =>
        LET S == last.before.shrimps
            F == last.before.foods
        IN  /\ Len(foods) = Len(F)
            /\ \A k \in 1..Len(F) :
                  (\E i \in 1..Len(S) : hitsFood(S[i], F[k]))
                     => Eaten(F[k]) >= CountIn(F, F[k])
            /\ \A i \in 1..Len(S) :
                  LET p == S[i]
                      a == last.arrayB[i]
                      n == FoodsEatenBy(p.id)
                  IN  /\ a.id = p.id /\ a.x = p.x /\ a.y = p.y
                      /\ a.size = Min(maxShrimpSize, p.size + growthPerFood * n)
                      /\ a.score = p.score + scorePerFood * n
                      /\ \A k \in 1..Len(F) :
                            (/\ hitsFood(p, F[k])
                             /\ \A j \in 1..(i - 1) : ~hitsFood(last.arrayB[j], F[k]))
                               => EatenBy(p.id, F[k]) >= CountIn(F, F[k])

\* C11 witness: a Player of the initial size touched exactly one consumable when
\* the pass started, destroyed it, and left the pass with size
\* initialShrimpSize + growthPerFood and score scorePerFood; the number of
\* consumables is what it was.
C11_Witness ==
    /\ Pass
    /\ Len(foods) = Len(last.before.foods)
    /\ \E id \in Ids(shrimps) :
          /\ Has(last.before.shrimps, id)
          /\ Before(id).size = initialShrimpSize
          /\ Before(id).score = 0
          /\ Touching(Before(id), last.before.foods) = 1
          /\ FoodsEatenBy(id) = 1
          /\ Alive(id).size = initialShrimpSize + growthPerFood
          /\ Alive(id).score = scorePerFood

\* the Players at places i and j of shrimpArray are the only ones involved in a
\* collision when PART 2 of the last pass starts: no third Player overlaps
\* either of them, and no two other Players of different sizes overlap
OnlyPair(i, j) ==
    LET A == last.arrayB
        Others == (1..Len(A)) \ {i, j}
    IN  /\ \A k \in Others : ~hitsShrimp(A[k], A[i]) /\ ~hitsShrimp(A[k], A[j])
        /\ \A k, m \in Others :
              k < m => ~(hitsShrimp(A[k], A[m]) /\ A[k].size # A[m].size)

\* C12: when two Players A and B overlap at PART 2 with sizeA > sizeB and are
\* the only Players involved in a collision, the pass removes B, sets A's size
\* to min(maxShrimpSize, sizeA + growthPerShrimp) and raises A's score by
\* scorePerShrimp, whichever of the two was inserted first.
C12_LargerConsumesSmaller ==
    Pass => \A i, j \in 1..Len(last.arrayB) :
               LET A == last.arrayB[i]
                   B == last.arrayB[j]
               IN  (i # j /\ hitsShrimp(A, B) /\ A.size > B.size /\ OnlyPair(i, j))
                      => /\ ~Has(shrimps, B.id)
                         /\ Has(shrimps, A.id)
                         /\ Alive(A.id).size = Min(maxShrimpSize, A.size + growthPerShrimp)
                         /\ Alive(A.id).score = A.score + scorePerShrimp
                         /\ last.shrimpLog = <<[eater |-> A.id, eaten |-> B.id]>>

\* C12 witness: the smaller Player B was inserted before the larger Player A, a
\* third Player stood elsewhere; B is gone and A grew by growthPerShrimp.
C12_Witness ==
    /\ Pass
    /\ Len(last.arrayB) >= 3
    /\ \E i, j \in 1..Len(last.arrayB) :
          /\ i < j
          /\ hitsShrimp(last.arrayB[i], last.arrayB[j])
          /\ last.arrayB[j].size > last.arrayB[i].size
          /\ OnlyPair(i, j)
          /\ ~Has(shrimps, last.arrayB[i].id)
          /\ Alive(last.arrayB[j].id).size = last.arrayB[j].size + growthPerShrimp

\* C13: two overlapping Players whose sizes are equal when PART 2 evaluates
\* them, with no third Player of another size overlapping either, both exist
\* after the pass with the size and score they had at PART 2; if they touched
\* no consumable in the pass these are the size and score they had before it.
C13_EqualStandoff ==
    Pass => \A i, j \in 1..Len(last.arrayB) :
               LET A == last.arrayB
                   Others == (1..Len(A)) \ {i, j}
               IN  (/\ i < j
                    /\ hitsShrimp(A[i], A[j])
                    /\ A[i].size = A[j].size
                    /\ \A k \in Others, n \in {i, j} :
                          ~(hitsShrimp(A[k], A[n]) /\ A[k].size # A[n].size))
                      => \A n \in {i, j} :
                            /\ Has(shrimps, A[n].id)
                            /\ Alive(A[n].id) = A[n]
                            /\ FoodsEatenBy(A[n].id) = 0
                                  => Alive(A[n].id) = last.before.shrimps[n]

\* C13 witness: two Players at maxShrimpSize overlapped during a pass in which
\* nothing was consumed; both are still there, sizes and scores as before.
C13_Witness ==
    /\ Pass
    /\ last.foodLog = <<>>
    /\ last.shrimpLog = <<>>
    /\ \E i, j \in 1..Len(shrimps) :
          /\ i < j
          /\ hitsShrimp(shrimps[i], shrimps[j])
          /\ shrimps[i].size = maxShrimpSize
          /\ shrimps[j].size = maxShrimpSize
          /\ shrimps = last.before.shrimps

\* the 'gameUpdate' messages the last callback emitted
Updates == SelectSeq(out.msgs, LAMBDA m : m.event = "gameUpdate")

\* C14: the connection callback of session s emits, to s alone, one snapshot
\* taken after addShrimp(s) in the same callback: it is the world as the
\* callback leaves it and contains exactly one Player with id s, in bounds,
\* with size initialShrimpSize and score 0.
C14_JoinSnapshot ==
    last.op = "addShrimp" =>
        /\ Len(Updates) = 1
        /\ DOMAIN Updates[1].data = {last.id}
        /\ LET snapshot == Updates[1].data[last.id]
               own == {i \in 1..Len(snapshot.shrimps) : snapshot.shrimps[i].id = last.id}
           IN  /\ snapshot = [shrimps |-> shrimps, foods |-> foods]
               /\ Cardinality(own) = 1
               /\ \A i \in own :
                     /\ InBounds(snapshot.shrimps[i])
                     /\ snapshot.shrimps[i].size = initialShrimpSize
                     /\ snapshot.shrimps[i].score = 0

\* C14 witness: a session connected while a grown Player was in the world; the
\* snapshot sent to it holds both Players.
C14_Witness ==
    /\ last.op = "addShrimp"
    /\ Len(Updates) = 1
    /\ DOMAIN Updates[1].data = {last.id}
    /\ Len(Updates[1].data[last.id].shrimps) >= 2
    /\ \E i \in 1..Len(shrimps) : shrimps[i].size > initialShrimpSize

\* C15: addShrimp(id) leaves exactly one Player under id, the one it returns,
\* with size initialShrimpSize and score 0, also when a Player existed under id
\* (that Player is gone); every other Player, their order, and every consumable
\* are unchanged.
C15_AddShrimpReplaces ==
    [][last'.op = "addShrimp" =>
          LET id == last'.id IN
          /\ Cardinality({i \in 1..Len(shrimps') : shrimps'[i].id = id}) = 1
          /\ last'.ret = <<Now(id)>>
          /\ Now(id).size = initialShrimpSize
          /\ Now(id).score = 0
          /\ shrimps'[Len(shrimps')].id = id
          /\ MapDelete(shrimps', id) = MapDelete(shrimps, id)
          /\ foods' = foods]_vars

\* C15 witness: addShrimp was called for an id that had a Player, with a grown
\* Player elsewhere in the world; a Player of the initial size stands under the id.
C15_Witness ==
    /\ last.op = "addShrimp"
    /\ last.repeat
    /\ Len(shrimps) >= 2
    /\ Alive(last.id).size = initialShrimpSize
    /\ \E i \in 1..Len(shrimps) : shrimps[i].size > initialShrimpSize

InMargin(p) ==
    /\ margin <= p.x /\ p.x <= mapWidth - margin
    /\ margin <= p.y /\ p.y <= mapHeight - margin

\* C16: every consumable lies where it was spawned, within
\* [margin, mapWidth - margin] x [margin, mapHeight - margin], and so does the
\* Player that addShrimp has just created and returned.
C16_SpawnWithinMargin ==
    /\ \A k \in 1..Len(foods) : InMargin(foods[k])
    /\ last.op = "addShrimp" =>
          /\ InMargin(last.ret[1])
          /\ Alive(last.id) = last.ret[1]

\* C16 witness: the random numbers at both ends of their range: consumables
\* spawned at (margin, margin), a Player at the largest x a draw can give.
C16_Witness ==
    /\ last.op = "addShrimp"
    /\ last.ret[1].x = margin + ((RandDen - 1) * (mapWidth - 2 * margin)) \div RandDen
    /\ last.ret[1].y = margin
    /\ \E k \in 1..Len(foods) : foods[k].x = margin /\ foods[k].y = margin

Broadcasts == SelectSeq(out.msgs, LAMBDA m : m.event = "gameUpdate" /\ m.via = "io")

\* C18: a run of the simulation tick only advances the World and emits no
\* message; world snapshots are broadcast by a timer of their own.
C18_TickEmitsNothing == Pass => out.msgs = <<>>

\* C19: a callback broadcasts at most one world snapshot, and only the game loop
\* does, so there are never more broadcasts than loop runs; a run broadcasts
\* only when at least 1000 / 30 ms have passed since the previous broadcast,
\* a time that keeps counting over the runs that do not broadcast and that no
\* other callback resets.
C19_BroadcastRate ==
    [][/\ Len(Broadcasts') <= (IF last'.op = "processEating" THEN 1 ELSE 0)
       /\ Broadcasts' # <<>> => (30 * out'.waited >= 1000 /\ elapsed' = 0)
       /\ (last'.op = "processEating" /\ Broadcasts' = <<>>)
             => (out'.waited > elapsed /\ elapsed' = out'.waited)
       /\ last'.op # "processEating" => elapsed' = elapsed]_vars

\* C19 witness: two loop runs on time since the last broadcast, neither of them
\* broadcast to the connected sessions.
C19_Witness ==
    /\ Pass
    /\ connected # {}
    /\ Broadcasts = <<>>
    /\ elapsed = 2 * FRAME_DELAY

\* C20: a world broadcast goes to every connected session and hands each of
\* them one and the same snapshot, the world as the pass left it.
C20_SameSnapshotToAll ==
    \A k \in 1..Len(Broadcasts) :
        /\ DOMAIN Broadcasts[k].data = connected
        /\ \A s \in connected :
              Broadcasts[k].data[s] = [shrimps |-> shrimps, foods |-> foods]

\* C20 witness: a broadcast to two or more sessions, one of them a session
\* whose Player was consumed in the pass and is not in the snapshot.
C20_Witness ==
    /\ Pass
    /\ Len(Broadcasts) = 1
    /\ Cardinality(connected) >= 2
    /\ \E s \in connected :
          /\ ~Has(shrimps, s)
          /\ \E k \in 1..Len(last.shrimpLog) : last.shrimpLog[k].eaten = s
          /\ \A i \in 1..Len(Broadcasts[1].data[s].shrimps) :
                Broadcasts[1].data[s].shrimps[i].id # s

\* the 'player_count' messages the last callback emitted
PlayerCounts == SelectSeq(out.msgs, LAMBDA m : m.event = "player_count")

\* C21: the connection callback and the disconnect callback each emit exactly
\* one 'player_count' message, with io.emit, to every session then connected,
\* carrying their number, also when the disconnecting session had no Player
\* left (it was consumed); no other callback emits one.
C21_SessionCountBroadcast ==
    IF last.op \in {"addShrimp", "removeShrimp"}
    THEN /\ Len(PlayerCounts) = 1
         /\ PlayerCounts[1].via = "io"
         /\ DOMAIN PlayerCounts[1].data = connected
         /\ \A s \in connected : PlayerCounts[1].data[s] = Cardinality(connected)
    ELSE PlayerCounts = <<>>

\* C21 witness: a session whose Player had been consumed disconnected
\* (removeShrimp returned false); the count went to the session that remains.
C21_Witness ==
    /\ last.op = "removeShrimp"
    /\ last.ret = <<FALSE>>
    /\ Len(PlayerCounts) = 1
    /\ DOMAIN PlayerCounts[1].data = connected
    /\ connected # {}
    /\ Len(shrimps) >= 1

\* C22: the larger a Player has grown, the slower it moves: an input that
\* moves a Player moves it a shorter distance than the same input would move a
\* smaller Player standing on the same place.
C22_LargerMovesSlower ==
    [][(last'.op = "updateShrimpPosition" /\ Has(shrimps, last'.id)) =>
          LET id == last'.id
              x == last'.args[1]
              y == last'.args[2]
          IN  \A i \in 1..Len(shrimps) :
                 (/\ shrimps[i].size < Was(id).size
                  /\ shrimps[i].x = Was(id).x /\ shrimps[i].y = Was(id).y
                  /\ Dist2(shrimps[i], moved(shrimps[i], x, y)) > 0)
                    => Dist2(Was(id), Now(id))
                          < Dist2(shrimps[i], moved(shrimps[i], x, y))]_vars

\* the array that the "ate food" log lines from the k-th on make of G, each line
\* removing the consumable it names from the index it names and pushing its
\* replacement: <<array>>, or <<>> if a line names a consumable that is not there
RECURSIVE FoodsAfter(_, _, _)
FoodsAfter(G, log, k) ==
    IF k > Len(log) THEN <<G>>
    ELSE IF log[k].at \in 1..Len(G) /\ G[log[k].at] = log[k].food
         THEN FoodsAfter(Append(RemoveAt(G, log[k].at), log[k].spawned), log, k + 1)
         ELSE <<>>

Spawned(v) == Cardinality({k \in 1..Len(last.foodLog) : last.foodLog[k].spawned = v})

\* C23: in PART 1 of a pass every consumption takes one consumable that is in
\* the array at that moment out of it and credits the one Player that touched
\* it: the array after the pass is the array before it with, line by line,
\* the consumed item removed and its replacement pushed; no consumable is
\* consumed more often than it existed (at the start or as a replacement); a
\* Player's tests go down the array, so it never meets an index twice, and the
\* Players take their turns in insertion order; the scores gained add up to
\* scorePerFood per consumption.
C23_ConsumedAtMostOnce ==
    Pass =>
        LET S == last.before.shrimps
            F == last.before.foods
            log == last.foodLog
        IN  /\ FoodsAfter(F, log, 1) = <<foods>>
            /\ \A k \in 1..Len(log) :
                  /\ Eaten(log[k].food) <= CountIn(F, log[k].food) + Spawned(log[k].food)
                  /\ Has(S, log[k].by)
            /\ \A k \in 1..(Len(log) - 1) :
                  /\ IndexOf(S, log[k].by) <= IndexOf(S, log[k + 1].by)
                  /\ log[k].by = log[k + 1].by => log[k + 1].at < log[k].at
            /\ \A i \in 1..Len(S) :
                  last.arrayB[i].score = S[i].score + scorePerFood * FoodsEatenBy(S[i].id)

\* C23 witness: a Player consumed consumables whose replacements fell on the same
\* spot, and a Player iterated later consumed a replacement in the same pass, so
\* more consumables of that kind were consumed than the pass started with.
C23_Witness ==
    /\ Pass
    /\ \E k, m \in 1..Len(last.foodLog) :
          /\ k < m
          /\ last.foodLog[m].by # last.foodLog[k].by
          /\ last.foodLog[m].food = last.foodLog[k].spawned
          /\ Eaten(last.foodLog[m].food) > CountIn(last.before.foods, last.foodLog[m].food)
    /\ Len(foods) = Len(last.before.foods)

\* "ate food" log lines of the last pass about a consumable equal to v, by the
\* Players iterated before place i
EatenEarlier(i, v) ==
    Cardinality({k \in 1..Len(last.foodLog) :
                    /\ last.foodLog[k].food = v
                    /\ IndexOf(last.before.shrimps, last.foodLog[k].by) < i})

\* the consumables of the array at the start of the last pass that the Player at
\* place i touches with the size it has then, less those (counted by value) that
\* Players iterated earlier consumed
LeftFor(i) ==
    LET F == last.before.foods
        p == last.before.shrimps[i]
    IN  {k \in 1..Len(F) :
            /\ hitsFood(p, F[k])
            /\ Cardinality({m \in 1..k : F[m] = F[k]}) > EatenEarlier(i, F[k])}

\* C24: a Player consumes in one pass every consumable it overlaps: each
\* consumable within (its size at the start of the pass + the consumable's
\* size) that no Player iterated earlier consumed is destroyed by it in that
\* pass, however many they are, and its score rises by scorePerFood for each
\* consumable it destroyed.
C24_ConsumesAllOverlapping ==
    Pass =>
        \A i \in 1..Len(last.before.shrimps) :
            LET F == last.before.foods
                p == last.before.shrimps[i]
            IN  /\ \A k \in LeftFor(i) :
                      EatenBy(p.id, F[k]) >= CountIn(F, F[k]) - EatenEarlier(i, F[k])
                /\ FoodsEatenBy(p.id) >= Cardinality(LeftFor(i))
                /\ last.arrayB[i].score = p.score + scorePerFood * FoodsEatenBy(p.id)

\* C24 witness: a Player touched two consumables when the pass started and
\* consumed both in it, its score up by twice scorePerFood; a Player iterated
\* after it consumed in the same pass too.
C24_Witness ==
    /\ Pass
    /\ \E i \in 1..Len(last.before.shrimps) :
          /\ Cardinality(LeftFor(i)) = 2
          /\ FoodsEatenBy(last.before.shrimps[i].id) = 2
          /\ last.arrayB[i].score = last.before.shrimps[i].score + 2 * scorePerFood
          /\ \E j \in (i + 1)..Len(last.before.shrimps) :
                FoodsEatenBy(last.before.shrimps[j].id) >= 1

\* the consumables of the array at the start of the last pass that lie at a
\* distance below (size + consumable size) from the Player at place i
Reach(i) ==
    LET F == last.before.foods
        p == last.before.shrimps[i]
    IN  {k \in 1..Len(F) :
            (p.x - F[k].x) * (p.x - F[k].x) + (p.y - F[k].y) * (p.y - F[k].y)
               < (p.size + F[k].size) * (p.size + F[k].size)}

\* the "ate food" log lines of the last pass written for this Player
LinesOf(id) == SelectSeq(last.foodLog, LAMBDA l : l.by = id)

\* C25: both hit tests are strict, with different thresholds. A Player that
\* finds the array as the pass found it consumes nothing if no consumable lies
\* at a distance below (its size + the consumable's size), and otherwise its
\* first hit is the last consumable of the array that does: one at exactly that
\* distance is passed over. Two Players alone in PART 2 collide (one of them
\* is consumed, if their sizes differ) exactly when their distance is below
\* half the sum of their sizes, not at that distance.
C25_StrictHitTests ==
    Pass =>
        /\ \A i \in 1..Len(last.before.shrimps) :
              LET F == last.before.foods
                  p == last.before.shrimps[i]
                  top == CHOOSE k \in Reach(i) : \A m \in Reach(i) : m <= k
              IN  (\A j \in 1..(i - 1) : FoodsEatenBy(last.before.shrimps[j].id) = 0)
                     => /\ Reach(i) = {} => FoodsEatenBy(p.id) = 0
                        /\ Reach(i) # {} =>
                              /\ LinesOf(p.id) # <<>>
                              /\ LinesOf(p.id)[1].at = top
                              /\ LinesOf(p.id)[1].food = F[top]
        /\ Len(last.arrayB) = 2 =>
              LET A == last.arrayB[1]
                  B == last.arrayB[2]
                  collide == 4 * ((A.x - B.x) * (A.x - B.x) + (A.y - B.y) * (A.y - B.y))
                                < (A.size + B.size) * (A.size + B.size)
              IN  /\ (last.shrimpLog # <<>>) <=> (collide /\ A.size # B.size)
                  /\ (Len(shrimps) = 2) <=> ~(collide /\ A.size # B.size)

\* C25 witness: the Player iterated first stood at exactly (its size + the
\* consumable's size) from a consumable and consumed nothing; after PART 1 the
\* two Players, of different sizes, stood at exactly half the sum of their
\* sizes from each other, and both are alive.
C25_Witness ==
    /\ Pass
    /\ Len(last.arrayB) = 2
    /\ Len(shrimps) = 2
    /\ FoodsEatenBy(last.before.shrimps[1].id) = 0
    /\ \E k \in 1..Len(last.before.foods) :
          Dist2(last.before.shrimps[1], last.before.foods[k])
             = Sq(last.before.shrimps[1].size + last.before.foods[k].size)
    /\ last.arrayB[1].size # last.arrayB[2].size
    /\ 4 * Dist2(last.arrayB[1], last.arrayB[2])
          = Sq(last.arrayB[1].size + last.arrayB[2].size)

\* places i < j of shrimpArray hold Players that collide at PART 2 of the last
\* pass with different sizes
Clash(i, j) ==
    LET A == last.arrayB[i]
        B == last.arrayB[j]
    IN  /\ 4 * ((A.x - B.x) * (A.x - B.x) + (A.y - B.y) * (A.y - B.y))
              < (A.size + B.size) * (A.size + B.size)
        /\ A.size # B.size

\* no pair (i, j), i < j, with i from lo to hi clashes
Quiet(lo, hi) ==
    \A i \in lo..hi : \A j \in (i + 1)..Len(last.arrayB) : ~Clash(i, j)

\* the places in shrimpArray of the two Players of the k-th "ate Shrimp" line
LineLo(k) ==
    Min(IndexOf(last.arrayB, last.shrimpLog[k].eater),
        IndexOf(last.arrayB, last.shrimpLog[k].eaten))
LineHi(k) ==
    Max(IndexOf(last.arrayB, last.shrimpLog[k].eater),
        IndexOf(last.arrayB, last.shrimpLog[k].eaten))

\* another world whose PART 1 leaves the Player sequence of the last pass:
\* other consumables and other random numbers, and one in which the first
\* Player still has to consume, in this pass, the last consumable it was fed
FoodsAt(p) == [k \in 1..initialFoodCount |->
                  IF k = 1 THEN [x |-> p.x, y |-> p.y, size |-> minFoodSize]
                  ELSE NewFood(DrawFar)]
OtherWorlds ==
    LET A == last.arrayB IN
    {[S |-> A, F |-> [k \in 1..initialFoodCount |-> NewFood(DrawMin)],
      rnd |-> [k \in 1..MaxDraws |-> DrawMin]]}
    \cup (IF Len(A) > 0 /\ A[1].size > initialShrimpSize /\ A[1].size < maxShrimpSize
          THEN {[S |-> [A EXCEPT ![1].size = @ - growthPerFood,
                                 ![1].score = @ - scorePerFood],
                 F |-> FoodsAt(A[1]),
                 rnd |-> [k \in 1..MaxDraws |-> DrawFar]]}
          ELSE {})

SizeInRange(f) == minFoodSize <= f.size /\ f.size <= maxFoodSize

\* C27: every consumable's size lies in [minFoodSize, maxFoodSize], and a live
\* consumable never changes: connect, disconnect and input leave the array as
\* it is, and a pass only takes consumed consumables (ones their eater touched)
\* out of it and pushes replacements, every other consumable staying as it was
\* and in its order.
C27_FoodImmutable ==
    [][/\ \A k \in 1..Len(foods') : SizeInRange(foods'[k])
       /\ last'.op # "processEating" => foods' = foods
       /\ last'.op = "processEating" =>
             /\ FoodsAfter(foods, last'.foodLog, 1) = <<foods'>>
             /\ \A k \in 1..Len(last'.foodLog) :
                   LET l == last'.foodLog[k]
                       eater == last'.arrayB[IndexOf(last'.arrayB, l.by)]
                   IN  /\ SizeInRange(l.spawned)
                       /\ Dist2(eater, l.food) < Sq(eater.size + l.food.size)]_vars

\* C27 witness: a pass consumed a consumable of size maxFoodSize and pushed a
\* replacement; the consumables it did not consume are where and what they were.
C27_Witness ==
    /\ Pass
    /\ \E k \in 1..Len(last.foodLog) : last.foodLog[k].food.size = maxFoodSize
    /\ FoodsAfter(last.before.foods, last.foodLog, 1) = <<foods>>
    /\ foods # last.before.foods
    /\ \E k \in 1..Len(foods) : foods[k] = last.before.foods[k]

\* C28: between callbacks the number of consumables is exactly
\* initialFoodCount, never below and never above it, and so is the number in
\* every world snapshot a callback emits, on join and on broadcast: the removal
\* of a consumed consumable and the push of its replacement happen inside one
\* callback.
C28_FoodCountExact ==
    /\ Len(foods) = initialFoodCount
    /\ \A k \in 1..Len(Updates) :
          \A s \in DOMAIN Updates[k].data :
             Len(Updates[k].data[s].foods) = initialFoodCount

\* C28 witness: a loop run in which two or more consumables were consumed has
\* broadcast its snapshot to a connected session.
C28_Witness ==
    /\ Pass
    /\ Len(last.foodLog) >= 2
    /\ Len(Broadcasts) = 1
    /\ \E s \in connected :
          /\ s \in DOMAIN Broadcasts[1].data
          /\ Len(Broadcasts[1].data[s].foods) = initialFoodCount
          /\ Broadcasts[1].data[s].foods # last.before.foods

\* the Players at places i and j entered the last pass with equal sizes below
\* maxShrimpSize, overlapping, the one at i consumed in PART 1 and the one at j
\* did not, and no third Player overlapped either of them at PART 2
GrewApart(i, j) ==
    LET S == last.before.shrimps
        A == last.arrayB
    IN  /\ i # j
        /\ S[i].size = S[j].size
        /\ S[i].size < maxShrimpSize
        /\ hitsShrimp(S[i], S[j])
        /\ FoodsEatenBy(S[i].id) >= 1
        /\ FoodsEatenBy(S[j].id) = 0
        /\ \A k \in (1..Len(A)) \ {i, j} :
              ~hitsShrimp(A[k], A[i]) /\ ~hitsShrimp(A[k], A[j])

\* C29: PART 2 uses the sizes PART 1 of the same pass produced: of two
\* overlapping Players of equal size below maxShrimpSize, exactly one of which
\* consumed a consumable in PART 1, the one that grew consumes the other in
\* that same pass.
C29_GrownConsumesEqual ==
    Pass => \A i, j \in 1..Len(last.before.shrimps) :
               GrewApart(i, j) =>
                  /\ last.arrayB[i].size > last.arrayB[j].size
                  /\ Has(shrimps, last.before.shrimps[i].id)
                  /\ ~Has(shrimps, last.before.shrimps[j].id)
                  /\ \E k \in 1..Len(last.shrimpLog) :
                        last.shrimpLog[k] = [eater |-> last.before.shrimps[i].id,
                                             eaten |-> last.before.shrimps[j].id]

\* C30: a pass leaves the sessions connected, also those whose Players it
\* consumed, and these have no Player afterwards; only the connection callback
\* adds a Player, and only the one of its session: a tick, an input or a
\* disconnect never brings an id into the Map; every Player belongs to a
\* connected session, and every snapshot emitted holds exactly the Players of
\* the Map, so a consumed Player's id is in no snapshot until its session
\* connects anew.
C30_ConsumedStaysAbsent ==
    [][/\ last'.op = "processEating" =>
             /\ connected' = connected
             /\ \A k \in 1..Len(last'.shrimpLog) :
                   /\ last'.shrimpLog[k].eaten \in connected'
                   /\ ~Has(shrimps', last'.shrimpLog[k].eaten)
       /\ last'.op # "addShrimp" => Ids(shrimps') \subseteq Ids(shrimps)
       /\ last'.op = "addShrimp" =>
             /\ Ids(shrimps') = Ids(shrimps) \cup {last'.id}
             /\ last'.id \notin connected
       /\ Ids(shrimps') \subseteq connected'
       /\ \A k \in 1..Len(Updates') :
             \A s \in DOMAIN Updates'[k].data :
                Ids(Updates'[k].data[s].shrimps) = Ids(shrimps')]_vars

\* C30 witness: a session whose Player was consumed in an earlier pass is still
\* connected; a later loop run, which found it without a Player, has broadcast
\* to it a snapshot that holds another Player and not its own.
C30_Witness ==
    /\ Pass
    /\ last.shrimpLog = <<>>
    /\ Len(Broadcasts) = 1
    /\ \E s \in connected :
          /\ ~Has(shrimps, s)
          /\ ~Has(last.before.shrimps, s)
          /\ s \in DOMAIN Broadcasts[1].data
          /\ s \notin Ids(Broadcasts[1].data[s].shrimps)
          /\ Len(Broadcasts[1].data[s].shrimps) >= 1

\* C31: no two live Players share an id, every live Player's id is the id of a
\* connected session, and there are at most as many live Players as connected
\* sessions, strictly fewer while a connected session is without its Player
\* (it was consumed).
C31_PlayersOfSessions ==
    /\ \A i, j \in 1..Len(shrimps) : i # j => shrimps[i].id # shrimps[j].id
    /\ Ids(shrimps) \subseteq connected
    /\ Len(shrimps) <= Cardinality(connected)
    /\ (\E s \in connected : ~Has(shrimps, s)) => Len(shrimps) < Cardinality(connected)

\* C31 witness: two sessions are connected and one of them is without its
\* Player, which was consumed; the Player of the other has just been moved by
\* an input.
C31_Witness ==
    /\ last.op = "updateShrimpPosition"
    /\ last.ret # <<>>
    /\ Cardinality(connected) = 2
    /\ Len(shrimps) = 1
    /\ \E s \in connected : ~Has(shrimps, s)

\* Consumables told apart: those of the array at the start of the last pass are
\* numbered 1..N by their places, the replacement pushed by the m-th "ate food"
\* line is N + m. TagsBefore(m): the array as the m-th line found it.
RECURSIVE TagsBefore(_)
TagsBefore(m) ==
    IF m <= 1 THEN [k \in 1..Len(last.before.foods) |-> k]
    ELSE Append(RemoveAt(TagsBefore(m - 1), last.foodLog[m - 1].at),
                Len(last.before.foods) + m - 1)

\* the consumable the m-th line consumed
TagOf(m) == TagsBefore(m)[last.foodLog[m].at]

\* the first line of the Player of the m-th line
FirstLine(m) ==
    CHOOSE k \in 1..m :
        /\ last.foodLog[k].by = last.foodLog[m].by
        /\ \A n \in 1..(k - 1) : last.foodLog[n].by # last.foodLog[m].by

\* C32: in PART 1 a Player never consumes a replacement that one of its own
\* consumptions in that pass pushed: everything it consumes was in the array
\* when its scan started (there from the start of the pass, or pushed for a
\* Player iterated earlier), so it consumes at most as many consumables as the
\* array held then.
C32_OwnReplacementUntested ==
    Pass =>
        /\ \A m \in 1..Len(last.foodLog) :
              /\ last.foodLog[m].at \in 1..Len(TagsBefore(m))
              /\ TagOf(m) <= Len(last.before.foods) + FirstLine(m) - 1
        /\ \A i \in 1..Len(last.before.shrimps) :
              FoodsEatenBy(last.before.shrimps[i].id) <= Len(last.before.foods)

\* C32 witness: the Player iterated last consumed two consumables, both
\* replacements fell within its reach, and both are still in the array after
\* the pass.
C32_Witness ==
    /\ Pass
    /\ Len(last.before.shrimps) >= 1
    /\ LET p == last.before.shrimps[Len(last.before.shrimps)]
           a == last.arrayB[Len(last.arrayB)]
       IN  /\ FoodsEatenBy(p.id) = 2
           /\ \A m \in 1..Len(last.foodLog) :
                 last.foodLog[m].by = p.id => hitsFood(p, last.foodLog[m].spawned)
           /\ Cardinality({k \in 1..Len(foods) : hitsFood(a, foods[k])}) >= 2

\* score and size after F consumables and P Players consumed since the spawn
ScoreAfter(F, P) == scorePerFood * F + scorePerShrimp * P
SizeAfter(F, P) ==
    Min(maxShrimpSize, initialShrimpSize + growthPerFood * F + growthPerShrimp * P)

\* C33: a Player is spawned with score 0 and size initialShrimpSize (F = P = 0);
\* a pass adds to a surviving Player's score scorePerFood per consumable and
\* scorePerShrimp per Player it consumed in the pass, and takes its size to
\* min(maxShrimpSize, size + growthPerFood * f + growthPerShrimp * p); so every
\* live Player's score and size are ScoreAfter(F, P) and SizeAfter(F, P) for
\* the numbers F and P it has consumed.
C33_ScoreSizeFormula ==
    /\ last.op = "addShrimp" =>
          /\ Alive(last.id).score = ScoreAfter(0, 0)
          /\ Alive(last.id).size = SizeAfter(0, 0)
    /\ Pass =>
          \A i \in 1..Len(shrimps) :
             LET id == shrimps[i].id
                 f == FoodsEatenBy(id)
                 p == ShrimpsEatenBy(id)
             IN  /\ shrimps[i].score = Before(id).score + ScoreAfter(f, p)
                 /\ shrimps[i].size
                       = Min(maxShrimpSize,
                             Before(id).size + growthPerFood * f + growthPerShrimp * p)
    /\ \A i \in 1..Len(shrimps) :
          \E F \in 0..(shrimps[i].score \div scorePerFood),
             P \in 0..(shrimps[i].score \div scorePerShrimp) :
             /\ shrimps[i].score = ScoreAfter(F, P)
             /\ shrimps[i].size = SizeAfter(F, P)

\* C33 witness: a Player that had consumed 38 consumables (size 48) consumed
\* two more and a Player in one pass: its score is ScoreAfter(40, 1), its size
\* SizeAfter(40, 1), the maximum, below 10 + 40 + 5.
C33_Witness ==
    /\ Pass
    /\ \E i \in 1..Len(shrimps) :
          /\ Before(shrimps[i].id).size = 48
          /\ Before(shrimps[i].id).score = ScoreAfter(38, 0)
          /\ FoodsEatenBy(shrimps[i].id) = 2
          /\ ShrimpsEatenBy(shrimps[i].id) = 1
          /\ shrimps[i].score = ScoreAfter(40, 1)
          /\ shrimps[i].size = SizeAfter(40, 1)
          /\ shrimps[i].size = maxShrimpSize

\* C35: a pass that starts with no Player in the Map is a no-op: it leaves the
\* Map empty and the consumable array as it was (the same items in the same
\* order), reaches neither PART 1 nor PART 2 and logs nothing.
C35_EmptyPassNoOp ==
    (Pass /\ last.before.shrimps = <<>>) =>
        /\ shrimps = <<>>
        /\ foods = last.before.foods
        /\ last.arrayB = <<>>
        /\ last.foodLog = <<>>
        /\ last.shrimpLog = <<>>

\* C35 witness: the pass ran on an empty Map after the last session had left,
\* over consumables that are no longer those of the server's start.
C35_Witness ==
    /\ Pass
    /\ last.before.shrimps = <<>>
    /\ shrimps = <<>>
    /\ connected = {}
    /\ Len(foods) = initialFoodCount
    /\ \A ds \in InitDraws : foods # initGameState(ds).foods

\* two live Players overlap (distance < half the sum of their sizes) with
\* strictly different sizes
Overlapping(a, b) ==
    /\ 4 * (Sq(a.x - b.x) + Sq(a.y - b.y)) < Sq(a.size + b.size)
    /\ a.size # b.size
Unresolved(S) == \E i, j \in 1..Len(S) : i < j /\ Overlapping(S[i], S[j])

\* C34: with the game loop running for ever and no connection, disconnection or
\* input, every pass that starts PART 2 with two overlapping Players of
\* different sizes leaves fewer Players in the Map than it found, and from every
\* state with such a pair the world reaches a state without any.
C34_OverlapResolved ==
    /\ [](Pass /\ Unresolved(last.arrayB) => Len(shrimps) < Len(last.before.shrimps))
    /\ (Unresolved(shrimps) ~> ~Unresolved(shrimps))

\* C34 witness: an earlier pass destroyed a Player and left an overlapping pair
\* of different sizes; the last pass found such a pair at PART 2, destroyed a
\* Player, and no such pair is left among the survivors.
C34_Witness ==
    /\ Pass
    /\ Len(last.before.shrimps) < Cardinality(connected)
    /\ Unresolved(last.before.shrimps)
    /\ Unresolved(last.arrayB)
    /\ Len(shrimps) < Len(last.before.shrimps)
    /\ Len(shrimps) >= 2
    /\ ~Unresolved(shrimps)

====
